---------------------------- MODULE Spec2Model ----------------------------
(***************************************************************************)
(* State-machine model of src/nspire/main.c: main, do_file, do_repl,       *)
(* strjoin, execute_from_lexer and nlr_jump_fail.                          *)
(*                                                                         *)
(* C strings are sequences of one-character strings.  The guest engine     *)
(* (lexer, parser, compiler, VM) is an external collaborator: each of its  *)
(* calls returns a nondeterministically chosen result.  Exhaustion of the  *)
(* arena inside the engine and a failing malloc of a line buffer are not   *)
(* modelled.                                                               *)
(***************************************************************************)
EXTENDS Integers, Sequences, FiniteSets, TLC

(***************************************************************************)
(* Bounds of the model.                                                    *)
(***************************************************************************)
MaxArgLen == 3      \* longest script path on the command line
MaxArgc   == 3      \* largest argc
MaxLines  == 3      \* physical lines one interactive session can supply
IntBits   == 3      \* modelled width of int / unsigned int (mp_int_t)
MaxBufs   == 3      \* line buffers malloc can hand out at one time

(***************************************************************************)
(* Program constants.                                                      *)
(***************************************************************************)
NOTHING_EXECUTED == -2
StackLimit == 32768
PathNum == 2

NULL == "NULL"       \* an unset name
NullPtr == <<>>      \* a null object pointer; <<x>> points to x

(***************************************************************************)
(* Fixed-width integers: uint exit_val, int ret, int main().               *)
(***************************************************************************)
Pow2(n) == 2 ^ n
IntRange == (0 - Pow2(IntBits - 1)) .. (Pow2(IntBits - 1) - 1)
\* conversion int -> unsigned int (the assignment to exit_val)
ToUint(n) == n % Pow2(IntBits)
\* conversion unsigned int -> int (return exit_val from int main)
ToInt(u) == IF u >= Pow2(IntBits - 1) THEN u - Pow2(IntBits) ELSE u

(***************************************************************************)
(* Strings.                                                                *)
(***************************************************************************)
RECURSIVE StringsUpTo(_, _)
StringsUpTo(chars, n) ==
    IF n = 0 THEN {<<>>}
    ELSE LET shorter == StringsUpTo(chars, n - 1)
         IN  shorter \cup {Append(s, c) : s \in shorter, c \in chars}

Str_quit == <<"q", "u", "i", "t">>
Str_stdin == <<"<", "s", "t", "d", "i", "n", ">">>
Str_ndless == <<"/", "d", "o", "c", "u", "m", "e", "n", "t", "s", "/", "n", "d", "l", "e", "s", "s">>
Str_prog == <<"p">>

\* the inputs: command lines and interactive lines
PathChars == {"/", "a"}
ScriptPaths == StringsUpTo(PathChars, MaxArgLen)
ExtraArgs == {<<"x">>, <<"y">>}
ArgTails == UNION {[1..n -> ExtraArgs] : n \in 0..(MaxArgc - 2)}
CommandLines ==
    {<<Str_prog>>} \cup {<<Str_prog, s>> \o t : s \in ScriptPaths, t \in ArgTails}
ReplLines == {Str_quit, <<"x">>, <<"i", "f", ":">>, <<>>}

\* Pointers into a string s are the positions 1..Len(s)+1 (s itself is 1), and
\* the null pointer is 0.
\* strrchr(s, c): pointer to the last c in s, 0 when there is none
strrchr(s, c) ==
    LET hits == {i \in 1..Len(s) : s[i] = c}
    IN  IF hits = {} THEN 0
        ELSE CHOOSE i \in hits : \A j \in hits : j <= i

\* qstr_from_strn(s, n): the first n bytes of s, interned
qstr_from_strn(s, n) == SubSeq(s, 1, n)

\* strjoin(s1, sep_char, s2), main.c:125-137
NUL == ""     \* the character 0
strjoin(s1, sep_char, s2) ==
    IF sep_char # NUL THEN s1 \o <<sep_char>> \o s2 ELSE s1 \o s2

\* strcmp(s1, s2) == 0
strcmp0(s1, s2) == s1 = s2


(***************************************************************************)
(* State.                                                                  *)
(***************************************************************************)
VARIABLES
    pc,            \* position of the single thread of control
    argv,          \* char **argv (argc = Len(argv))
    stack_limit,   \* value given to mp_stack_set_limit, 0 before the call
    heap,          \* char *heap: "unset", "null", "live", "freed" or "corrupt"
    gc_inited,     \* gc_init has been called
    texture,       \* nsp_texture_init / nsp_texture_deinit: "none", "init", "deinit"
    mp_state,      \* mp_init / mp_deinit: "none", "init", "deinit"
    sys_path,      \* mp_sys_path
    sys_argv,      \* mp_sys_argv
    ret,           \* int ret of main
    a,             \* loop variable of main's for loop
    should_exit,   \* static bool should_exit
    exit_val,      \* static uint exit_val
    status,        \* process exit status, meaningful once pc is terminal
    out,           \* the kinds of output written so far
    ranFiles,      \* the files handed to do_file, in order
    acks,          \* number of wait_key_pressed calls
    \* execute_from_lexer
    caller,        \* "file" or "repl": where execute_from_lexer returns to
    lex,           \* mp_lexer_t *lex: NullPtr or <<[source_name, live]>>
    input_kind,    \* MP_PARSE_FILE_INPUT or MP_PARSE_SINGLE_INPUT
    is_repl,
    pn,            \* mp_parse_node_t pn
    source_name,   \* qstr source_name
    module_fun,    \* mp_obj_t module_fun
    nlr_top,       \* TRUE while an nlr_push capture point is registered
    exc,           \* the captured exception nlr.ret_val: <<>> or <<[type, value]>>
    file_global,   \* the guest global __file__: <<>> or <<name>>
    stages,        \* the engine calls of the current invocation, in order
    lexText,       \* what the current lexer reads: <<>> or <<text or file name>>
    nInvoke,       \* number of execute_from_lexer invocations
    lastRet,       \* the value the last execute_from_lexer invocation returned
    \* do_repl
    line,          \* char *line  (0 is the null pointer)
    line2,         \* char *line2
    mem,           \* the malloc'ed line buffers
    memfault,      \* double frees and uses after free seen so far
    linesRead,     \* number of physical lines read so far
    contEof,       \* the current cycle left the continuation loop on end-of-input
    sessionErr,    \* some statement of this session ended in an error outcome
    termBy         \* why the session was terminated: NULL, "quit", "exit"

mainVars == <<argv, stack_limit, heap, gc_inited, texture, mp_state, sys_path,
              sys_argv, ret, a, status, ranFiles, acks>>
exitVars == <<should_exit, exit_val>>
eflVars  == <<caller, lex, input_kind, is_repl, pn, source_name, module_fun,
              nlr_top, exc, file_global, stages, lexText, nInvoke, lastRet>>
replVars == <<line, line2, mem, memfault, linesRead, contEof, sessionErr, termBy>>
vars == <<pc, mainVars, exitVars, out, eflVars, replVars>>

Bufs == 1..MaxBufs
FreeBuf == [live |-> FALSE, text |-> <<>>]

\* guest-level values an exception can carry, and the exception kinds
IntValue(n) == [kind |-> "int", n |-> n]
NoneValue == [kind |-> "none", n |-> 0]
StrValue == [kind |-> "str", n |-> 0]
ExcValues == {IntValue(n) : n \in IntRange} \cup {NoneValue, StrValue}
ExcTypes == {"SystemExit", "SystemExitSubclass", "Other"}

Init ==
    /\ pc = "main_start"
    /\ argv \in CommandLines
    /\ stack_limit = 0
    /\ heap = "unset"
    /\ gc_inited = FALSE
    /\ texture = "none"
    /\ mp_state = "none"
    /\ sys_path = <<>>
    /\ sys_argv = <<>>
    /\ ret = 0
    /\ a = 0
    /\ should_exit = FALSE
    /\ exit_val = 0
    /\ status = 0
    /\ out = {}
    /\ ranFiles = <<>>
    /\ acks = 0
    /\ caller = NULL
    /\ lex = NullPtr
    /\ input_kind = NULL
    /\ is_repl = FALSE
    /\ pn = NULL
    /\ source_name = <<>>
    /\ module_fun = NULL
    /\ nlr_top = FALSE
    /\ exc = <<>>
    /\ file_global = <<>>
    /\ stages = <<>>
    /\ lexText = <<>>
    /\ nInvoke = 0
    /\ lastRet = 0
    /\ line = 0
    /\ line2 = 0
    /\ mem = [b \in Bufs |-> FreeBuf]
    /\ memfault = {}
    /\ linesRead = 0
    /\ contEof = FALSE
    /\ sessionErr = FALSE
    /\ termBy = NULL

(***************************************************************************)
(* main, main.c:179-248.                                                   *)
(***************************************************************************)
\* main.c:182-186: setbuf, cfg_register_fileext, mp_stack_set_limit(32768)
MainStart ==
    /\ pc = "main_start"
    /\ stack_limit' = StackLimit
    /\ pc' = "main_malloc"
    /\ UNCHANGED <<argv, heap, gc_inited, texture, mp_state, sys_path, sys_argv,
                   ret, a, status, ranFiles, acks, exitVars, out, eflVars, replVars>>

\* MainMalloc without the test of the pointer malloc returned
MainMalloc_unchecked ==
    /\ pc = "main_malloc"
    /\ \E got \in {"null", "live"} : heap' = got
    /\ gc_inited' = TRUE
    /\ pc' = "main_init"
    /\ UNCHANGED <<argv, stack_limit, texture, mp_state, sys_path, sys_argv,
                   ret, a, status, ranFiles, acks, exitVars, out, eflVars, replVars>>

\* main.c:189-196: the arena reservation, its failure path, and gc_init
MainMalloc ==
    /\ pc = "main_malloc"
    /\ \E got \in {"null", "live"} :
          /\ heap' = got
          /\ IF got = "null"
             THEN /\ out' = out \cup {"msgbox_heap_failed"}
                  /\ status' = 1
                  /\ pc' = "exited"
                  /\ gc_inited' = gc_inited
             ELSE /\ gc_inited' = TRUE
                  /\ pc' = "main_init"
                  /\ UNCHANGED <<out, status>>
    /\ UNCHANGED <<argv, stack_limit, texture, mp_state, sys_path, sys_argv,
                   ret, a, ranFiles, acks, exitVars, eflVars, replVars>>

\* main.c:198-213: nsp_texture_init, mp_init, sys.path, sys.argv, ret
MainInit ==
    /\ pc = "main_init"
    /\ texture' = "init"
    /\ mp_state' = "init"
    /\ sys_path' = [i \in 1..PathNum |-> IF i = 1 THEN <<>> ELSE Str_ndless]
    /\ sys_argv' = <<>>
    /\ ret' = NOTHING_EXECUTED
    /\ a' = 1
    /\ pc' = "main_for"
    /\ UNCHANGED <<argv, stack_limit, heap, gc_inited, status, ranFiles, acks,
                   exitVars, out, eflVars, replVars>>

\* C's argv[i] and argc
Argv(i) == argv[i + 1]
argc == Len(argv)

\* ScriptDirLen with the first separator taken instead of the last
ScriptDirLen_firstSep(s) ==
    (CHOOSE i \in 1..Len(s) : s[i] = "/" /\ \A j \in 1..(i - 1) : s[j] # "/") - 1

\* main.c:217-218: the length p - argv[a] handed to qstr_from_strn, for p # NULL
ScriptDirLen(s) == strrchr(s, "/") - 1

\* main.c:217-218 with p == NULL: p - argv[a] is pointer arithmetic on a null
\* pointer, undefined behaviour.  The entry the build then stores is any of:
\* nothing read, the whole argument, or bytes read past its end.
UBPathEntries(s) == {<<>>, s, s \o <<"?">>}

\* main.c:220-222: the arguments appended to sys.argv, argv[from..argc-1]
GuestArgs(av, from) == [i \in 1..(Len(av) - from) |-> av[from + i]]

\* main.c:215: the loop test of for (int a = 1; a < argc; a++)
MainFor ==
    /\ pc = "main_for"
    /\ pc' = IF a < argc THEN "main_args" ELSE "main_mode"
    /\ UNCHANGED <<mainVars, exitVars, out, eflVars, replVars>>

\* main.c:216-222: sys.path[0] and sys.argv for the script argv[a]
MainArgs ==
    /\ pc = "main_args"
    /\ LET p == strrchr(Argv(a), "/")
       IN  \/ /\ p # 0
              /\ sys_path' = [sys_path EXCEPT ![1] = qstr_from_strn(Argv(a), ScriptDirLen(Argv(a)))]
              /\ sys_argv' = sys_argv \o GuestArgs(argv, a)
              /\ pc' = "do_file"
           \/ /\ p = 0
              /\ \E e \in UBPathEntries(Argv(a)) :
                    sys_path' = [sys_path EXCEPT ![1] = e]
              /\ sys_argv' = sys_argv \o GuestArgs(argv, a)
              /\ pc' = "do_file"
           \/ /\ p = 0
              /\ pc' = "crashed"
              /\ UNCHANGED <<sys_path, sys_argv>>
    /\ UNCHANGED <<argv, stack_limit, heap, gc_inited, texture, mp_state, ret, a,
                   status, ranFiles, acks, exitVars, out, eflVars, replVars>>

\* main.c:169-172 and 224: ret = do_file(argv[a]) up to the call of
\* execute_from_lexer(lex, MP_PARSE_FILE_INPUT, false)
DoFile ==
    /\ pc = "do_file"
    /\ ranFiles' = Append(ranFiles, Argv(a))
    /\ \E l \in {NullPtr, <<[source_name |-> Argv(a), live |-> TRUE]>>} : lex' = l
    /\ lexText' = <<Argv(a)>>
    /\ caller' = "file"
    /\ input_kind' = "MP_PARSE_FILE_INPUT"
    /\ is_repl' = FALSE
    /\ stages' = <<>>
    /\ nInvoke' = nInvoke + 1
    /\ pc' = "efl_entry"
    /\ UNCHANGED <<argv, stack_limit, heap, gc_inited, texture, mp_state, sys_path,
                   sys_argv, ret, a, status, acks, exitVars, out, pn, source_name,
                   module_fun, nlr_top, exc, file_global, lastRet, replVars>>

\* main.c:224-225: the assignment of do_file's result is done; break
MainBreak ==
    /\ pc = "main_break"
    /\ pc' = "main_mode"
    /\ UNCHANGED <<mainVars, exitVars, out, eflVars, replVars>>

\* MainMode with the "Press any key" step skipped once should_exit is set
MainMode_skipAckOnExit ==
    /\ pc = "main_mode"
    /\ IF ret = NOTHING_EXECUTED
       THEN /\ pc' = "repl_banner"
            /\ out' = out
       ELSE IF should_exit
            THEN /\ pc' = "main_deinit"
                 /\ out' = out
            ELSE /\ out' = out \cup {"press_any_key"}
                 /\ pc' = "main_wait_key"
    /\ UNCHANGED <<mainVars, exitVars, eflVars, replVars>>

\* main.c:228-236: interactive mode when nothing was executed, else the
\* "Press any key to exit." step
MainMode ==
    /\ pc = "main_mode"
    /\ IF ret = NOTHING_EXECUTED
       THEN /\ pc' = "repl_banner"
            /\ out' = out
       ELSE /\ out' = out \cup {"press_any_key"}
            /\ pc' = "main_wait_key"
    /\ UNCHANGED <<mainVars, exitVars, eflVars, replVars>>

\* main.c:235: wait_key_pressed()
MainWaitKey ==
    /\ pc = "main_wait_key"
    /\ acks' = acks + 1
    /\ pc' = "main_deinit"
    /\ UNCHANGED <<argv, stack_limit, heap, gc_inited, texture, mp_state, sys_path,
                   sys_argv, ret, a, status, ranFiles, exitVars, out, eflVars, replVars>>

\* main.c:229-230: do_repl has returned; ret = 0
MainAfterRepl ==
    /\ pc = "main_after_repl"
    /\ ret' = 0
    /\ pc' = "main_deinit"
    /\ UNCHANGED <<argv, stack_limit, heap, gc_inited, texture, mp_state, sys_path,
                   sys_argv, a, status, ranFiles, acks, exitVars, out, eflVars, replVars>>

\* MainResult without the test of should_exit
MainResult_ret(se, ev, r) == r

\* main.c:244-247: the value main returns
MainResult(se, ev, r) == IF se THEN ToInt(ev) ELSE r

\* MainDeinit with the arena released before mp_deinit
MainDeinit_freeFirst ==
    /\ pc = "main_deinit"
    /\ heap' = "freed"
    /\ pc' = "main_free_heap"
    /\ UNCHANGED <<argv, stack_limit, gc_inited, texture, mp_state, sys_path, sys_argv,
                   ret, a, status, ranFiles, acks, exitVars, out, eflVars, replVars>>

\* main.c:238: mp_deinit
MainDeinit ==
    /\ pc = "main_deinit"
    /\ mp_state' = "deinit"
    /\ pc' = "main_free_heap"
    /\ UNCHANGED <<argv, stack_limit, heap, gc_inited, texture, sys_path, sys_argv,
                   ret, a, status, ranFiles, acks, exitVars, out, eflVars, replVars>>

\* free(p) of the arena pointer: free(NULL) does nothing, a second free of the
\* same block corrupts the allocator
FreeHeap(h) == IF h = "live" THEN "freed" ELSE IF h = "null" THEN "null" ELSE "corrupt"

\* main.c:240: free(heap)
MainFreeHeap ==
    /\ pc = "main_free_heap"
    /\ heap' = FreeHeap(heap)
    /\ pc' = "main_return"
    /\ UNCHANGED <<argv, stack_limit, gc_inited, texture, mp_state, sys_path, sys_argv,
                   ret, a, status, ranFiles, acks, exitVars, out, eflVars, replVars>>

\* main.c:242-247: nsp_texture_deinit, return
MainReturn ==
    /\ pc = "main_return"
    /\ texture' = "deinit"
    /\ status' = MainResult(should_exit, exit_val, ret)
    /\ pc' = "exited"
    /\ UNCHANGED <<argv, stack_limit, heap, gc_inited, mp_state, sys_path, sys_argv,
                   ret, a, ranFiles, acks, exitVars, out, eflVars, replVars>>

(***************************************************************************)
(* execute_from_lexer, main.c:74-123.                                      *)
(***************************************************************************)
\* return v: back to do_file's caller (ret = do_file(...)) or into do_repl,
\* which discards the value (main.c:162, 171, 224)
EflReturn(v) ==
    /\ lastRet' = v
    /\ ret' = IF caller = "file" THEN v ELSE ret
    /\ pc' = IF caller = "file" THEN "main_break" ELSE "repl_free"

\* mp_lexer_free(lex)
LexerFree(l) == <<[l[1] EXCEPT !.live = FALSE]>>

\* main.c:75-77: a null lexer
EflEntry ==
    /\ pc = "efl_entry"
    /\ IF lex = NullPtr
       THEN /\ EflReturn(1)
            /\ sessionErr' = (sessionErr \/ caller = "repl")
       ELSE /\ pc' = "efl_parse"
            /\ UNCHANGED <<lastRet, ret, sessionErr>>
    /\ UNCHANGED <<argv, stack_limit, heap, gc_inited, texture, mp_state, sys_path,
                   sys_argv, a, status, ranFiles, acks, exitVars, out,
                   caller, lex, input_kind, is_repl, pn, source_name, module_fun,
                   nlr_top, exc, file_global, stages, lexText, nInvoke,
                   line, line2, mem, memfault, linesRead, contEof, termBy>>

\* EflParse where a null parse node is reported but does not return
EflParse_noReturn ==
    /\ pc = "efl_parse"
    /\ \E r \in {"MP_PARSE_NODE_NULL", "node"} :
          /\ pn' = r
          /\ out' = IF r = "MP_PARSE_NODE_NULL" THEN out \cup {"parse_exception"} ELSE out
          /\ stages' = Append(stages, "mp_parse")
          /\ pc' = "efl_name"
    /\ UNCHANGED <<argv, stack_limit, heap, gc_inited, texture, mp_state, sys_path,
                   sys_argv, a, status, ranFiles, acks, exitVars, ret,
                   caller, lex, input_kind, is_repl, source_name, module_fun,
                   nlr_top, exc, file_global, lexText, nInvoke, lastRet,
                   line, line2, mem, memfault, linesRead, contEof, sessionErr, termBy>>

\* EflParse where the parse-error path returns without mp_lexer_free
EflParse_noFree ==
    /\ pc = "efl_parse"
    /\ \E r \in {"MP_PARSE_NODE_NULL", "node"} :
          /\ pn' = r
          /\ IF r = "MP_PARSE_NODE_NULL"
             THEN /\ out' = out \cup {"parse_exception"}
                  /\ lex' = lex
                  /\ stages' = Append(stages, "mp_parse")
                  /\ EflReturn(1)
                  /\ sessionErr' = (sessionErr \/ caller = "repl")
             ELSE /\ stages' = Append(stages, "mp_parse")
                  /\ pc' = "efl_name"
                  /\ UNCHANGED <<out, lex, lastRet, ret, sessionErr>>
    /\ UNCHANGED <<argv, stack_limit, heap, gc_inited, texture, mp_state, sys_path,
                   sys_argv, a, status, ranFiles, acks, exitVars,
                   caller, input_kind, is_repl, source_name, module_fun,
                   nlr_top, exc, file_global, lexText, nInvoke,
                   line, line2, mem, memfault, linesRead, contEof, termBy>>

\* main.c:79-87: mp_parse, and the parse-error path
EflParse ==
    /\ pc = "efl_parse"
    /\ \E r \in {"MP_PARSE_NODE_NULL", "node"} :
          /\ pn' = r
          /\ IF r = "MP_PARSE_NODE_NULL"
             THEN /\ out' = out \cup {"parse_exception"}
                  /\ lex' = LexerFree(lex)
                  /\ stages' = stages \o <<"mp_parse", "mp_lexer_free">>
                  /\ EflReturn(1)
                  /\ sessionErr' = (sessionErr \/ caller = "repl")
             ELSE /\ stages' = Append(stages, "mp_parse")
                  /\ pc' = "efl_name"
                  /\ UNCHANGED <<out, lex, lastRet, ret, sessionErr>>
    /\ UNCHANGED <<argv, stack_limit, heap, gc_inited, texture, mp_state, sys_path,
                   sys_argv, a, status, ranFiles, acks, exitVars,
                   caller, input_kind, is_repl, source_name, module_fun,
                   nlr_top, exc, file_global, lexText, nInvoke,
                   line, line2, mem, memfault, linesRead, contEof, termBy>>

\* StoresFile without the test of the input kind
StoresFile_always(kind) == TRUE

\* main.c:90-94: whether __file__ is stored for this input kind
StoresFile(kind) == kind = "MP_PARSE_FILE_INPUT"

\* main.c:89-95: source_name, the __file__ global, mp_lexer_free
EflName ==
    /\ pc = "efl_name"
    /\ source_name' = lex[1].source_name
    /\ memfault' = IF lex[1].live THEN memfault ELSE memfault \cup {"lexer_use_after_free"}
    /\ IF StoresFile(input_kind)
       THEN /\ file_global' = <<lex[1].source_name>>
            /\ stages' = stages \o <<"mp_store_global", "mp_lexer_free">>
       ELSE /\ file_global' = file_global
            /\ stages' = Append(stages, "mp_lexer_free")
    /\ lex' = LexerFree(lex)
    /\ pc' = "efl_compile"
    /\ UNCHANGED <<mainVars, exitVars, out, caller, input_kind, is_repl, pn,
                   module_fun, nlr_top, exc, lexText, nInvoke, lastRet,
                   line, line2, mem, linesRead, contEof, sessionErr, termBy>>

\* EflCompile where a compile result of none does not return
EflCompile_noReturn ==
    /\ pc = "efl_compile"
    /\ stages' = Append(stages, "mp_compile")
    /\ \E f \in {"mp_const_none", "fun"} : module_fun' = f
    /\ pc' = "efl_execute"
    /\ UNCHANGED <<argv, stack_limit, heap, gc_inited, texture, mp_state, sys_path,
                   sys_argv, a, status, ranFiles, acks, exitVars, out, ret,
                   caller, lex, input_kind, is_repl, pn, source_name,
                   nlr_top, exc, file_global, lexText, nInvoke, lastRet,
                   line, line2, mem, memfault, linesRead, contEof, sessionErr, termBy>>

\* main.c:97-102: mp_compile, and the compile-error path
EflCompile ==
    /\ pc = "efl_compile"
    /\ stages' = Append(stages, "mp_compile")
    /\ \E f \in {"mp_const_none", "fun"} :
          /\ module_fun' = f
          /\ IF f = "mp_const_none"
             THEN /\ EflReturn(1)
                  /\ sessionErr' = (sessionErr \/ caller = "repl")
             ELSE /\ pc' = "efl_execute"
                  /\ UNCHANGED <<lastRet, ret, sessionErr>>
    /\ UNCHANGED <<argv, stack_limit, heap, gc_inited, texture, mp_state, sys_path,
                   sys_argv, a, status, ranFiles, acks, exitVars, out,
                   caller, lex, input_kind, is_repl, pn, source_name,
                   nlr_top, exc, file_global, lexText, nInvoke,
                   line, line2, mem, memfault, linesRead, contEof, termBy>>

\* nlr_jump: control goes to the registered capture point, or to nlr_jump_fail
\* when none is registered
NlrJump(top) == IF top THEN "efl_catch" ELSE "nlr_jump_fail"

\* main.c:105-109: nlr_push, mp_call_function_0; either the call returns
\* (nlr_pop, return 0) or it raises and nlr_jump unregisters the capture point
\* and lands in the else branch with nlr.ret_val
EflExecute ==
    /\ pc = "efl_execute"
    /\ stages' = Append(stages, "mp_call_function_0")
    /\ \/ /\ nlr_top' = FALSE
          /\ exc' = <<>>
          /\ EflReturn(0)
       \/ \E t \in ExcTypes, v \in ExcValues :
             /\ exc' = <<[type |-> t, value |-> v]>>
             /\ nlr_top' = FALSE
             /\ pc' = NlrJump(TRUE)
             /\ UNCHANGED <<lastRet, ret>>
    /\ UNCHANGED <<argv, stack_limit, heap, gc_inited, texture, mp_state, sys_path,
                   sys_argv, a, status, ranFiles, acks, exitVars, out,
                   caller, lex, input_kind, is_repl, pn, source_name, module_fun,
                   file_global, lexText, nInvoke, replVars>>

\* IsSystemExit with the type test left out: every exception is an exit
IsSystemExit_any(e) == TRUE

\* mp_obj_is_subclass_fast(mp_obj_get_type(exc), &mp_type_SystemExit)
IsSystemExit(e) == e.type \in {"SystemExit", "SystemExitSubclass"}

\* mp_obj_get_int(mp_obj_exception_get_value(exc)): the integer the exception
\* carries; a value that is no integer makes it raise TypeError
GetIntRaises(v) == v.kind # "int"
GetInt(v) == v.n

\* EflCatch where the exit value is recorded but should_exit is not set
EflCatch_noFlag ==
    /\ pc = "efl_catch"
    /\ IF IsSystemExit(exc[1])
       THEN IF GetIntRaises(exc[1].value)
            THEN /\ pc' = NlrJump(nlr_top)
                 /\ UNCHANGED <<exitVars, out, lastRet, ret, sessionErr, termBy>>
            ELSE /\ exit_val' = ToUint(GetInt(exc[1].value))
                 /\ should_exit' = should_exit
                 /\ termBy' = "exit"
                 /\ EflReturn(1)
                 /\ UNCHANGED <<out, sessionErr>>
       ELSE /\ out' = out \cup {"exception_trace"}
            /\ EflReturn(1)
            /\ sessionErr' = (sessionErr \/ caller = "repl")
            /\ UNCHANGED <<exitVars, termBy>>
    /\ UNCHANGED <<argv, stack_limit, heap, gc_inited, texture, mp_state, sys_path,
                   sys_argv, a, status, ranFiles, acks,
                   caller, lex, input_kind, is_repl, pn, source_name, module_fun,
                   nlr_top, exc, file_global, stages, lexText, nInvoke,
                   line, line2, mem, memfault, linesRead, contEof>>

\* main.c:111-121: the else branch of nlr_push
EflCatch ==
    /\ pc = "efl_catch"
    /\ IF IsSystemExit(exc[1])
       THEN IF GetIntRaises(exc[1].value)
            THEN /\ pc' = NlrJump(nlr_top)
                 /\ UNCHANGED <<exitVars, out, lastRet, ret, sessionErr, termBy>>
            ELSE /\ exit_val' = ToUint(GetInt(exc[1].value))
                 /\ should_exit' = TRUE
                 /\ termBy' = "exit"
                 /\ EflReturn(1)
                 /\ UNCHANGED <<out, sessionErr>>
       ELSE /\ out' = out \cup {"exception_trace"}
            /\ EflReturn(1)
            /\ sessionErr' = (sessionErr \/ caller = "repl")
            /\ UNCHANGED <<exitVars, termBy>>
    /\ UNCHANGED <<argv, stack_limit, heap, gc_inited, texture, mp_state, sys_path,
                   sys_argv, a, status, ranFiles, acks,
                   caller, lex, input_kind, is_repl, pn, source_name, module_fun,
                   nlr_top, exc, file_global, stages, lexText, nInvoke,
                   line, line2, mem, memfault, linesRead, contEof>>

\* main.c:270-273: nlr_jump_fail prints "FATAL: uncaught NLR" and calls exit(1)
NlrJumpFail ==
    /\ pc = "nlr_jump_fail"
    /\ out' = out \cup {"fatal_uncaught_nlr"}
    /\ status' = 1
    /\ pc' = "exited"
    /\ UNCHANGED <<argv, stack_limit, heap, gc_inited, texture, mp_state, sys_path,
                   sys_argv, ret, a, ranFiles, acks, exitVars, eflVars, replVars>>

(***************************************************************************)
(* do_repl, main.c:139-167.                                                *)
(***************************************************************************)
\* malloc: the lowest buffer not in use
Malloc(m) == CHOOSE b \in Bufs : ~m[b].live /\ \A c \in Bufs : ~m[c].live => b <= c

\* a fresh buffer holding text t
Store(m, b, t) == [m EXCEPT ![b] = [live |-> TRUE, text |-> t]]

\* free(b)
Free(m, b) == [m EXCEPT ![b] = FreeBuf]

\* what freeing buffer b adds to the faults seen
FreeFault(m, b) == IF b # 0 /\ ~m[b].live THEN {"double_free"} ELSE {}

\* mp_repl_continue_with_input(input): a blank input is complete; an input
\* that opens a compound statement is incomplete until a blank line ends it
StartsCompound(t) == Len(t) >= 2 /\ SubSeq(t, 1, 2) = <<"i", "f">>
mp_repl_continue_with_input(t) ==
    /\ t # <<>>
    /\ StartsCompound(t)
    /\ t[Len(t)] # "\n"

\* main.c:140: the banner
ReplBanner ==
    /\ pc = "repl_banner"
    /\ out' = out \cup {"banner"}
    /\ pc' = "repl_loop"
    /\ UNCHANGED <<mainVars, exitVars, eflVars, replVars>>

\* ReplLoop with a loop test that ignores should_exit
ReplLoop_forever ==
    /\ pc = "repl_loop"
    /\ pc' = "repl_prompt"
    /\ UNCHANGED <<mainVars, exitVars, out, eflVars, replVars>>

\* main.c:142: while (!should_exit)
ReplLoop ==
    /\ pc = "repl_loop"
    /\ pc' = IF ~should_exit THEN "repl_prompt" ELSE "main_after_repl"
    /\ UNCHANGED <<mainVars, exitVars, out, eflVars, replVars>>

\* ReplPrompt where a null line starts the loop over instead of returning
ReplPrompt_retryOnEof ==
    /\ pc = "repl_prompt"
    /\ \/ /\ line' = 0
          /\ pc' = "repl_loop"
          /\ UNCHANGED <<mem, linesRead>>
       \/ /\ linesRead < MaxLines
          /\ \E t \in ReplLines :
                LET b == Malloc(mem)
                IN  /\ mem' = Store(mem, b, t)
                    /\ line' = b
          /\ linesRead' = linesRead + 1
          /\ pc' = "repl_cont_check"
    /\ contEof' = FALSE
    /\ UNCHANGED <<mainVars, exitVars, out, eflVars, line2, memfault, sessionErr, termBy>>

\* main.c:143-145: line = prompt(">>> "); a null line returns from do_repl
ReplPrompt ==
    /\ pc = "repl_prompt"
    /\ \/ /\ line' = 0
          /\ pc' = "main_after_repl"
          /\ UNCHANGED <<mem, linesRead>>
       \/ /\ linesRead < MaxLines
          /\ \E t \in ReplLines :
                LET b == Malloc(mem)
                IN  /\ mem' = Store(mem, b, t)
                    /\ line' = b
          /\ linesRead' = linesRead + 1
          /\ pc' = "repl_cont_check"
    /\ contEof' = FALSE
    /\ UNCHANGED <<mainVars, exitVars, out, eflVars, line2, memfault, sessionErr, termBy>>

\* main.c:147: the test of while (mp_repl_continue_with_input(line))
ReplContCheck ==
    /\ pc = "repl_cont_check"
    /\ pc' = IF mp_repl_continue_with_input(mem[line].text)
             THEN "repl_cont_prompt" ELSE "repl_dispatch"
    /\ memfault' = IF mem[line].live THEN memfault ELSE memfault \cup {"use_after_free"}
    /\ UNCHANGED <<mainVars, exitVars, out, eflVars, line, line2, mem, linesRead,
                   contEof, sessionErr, termBy>>

\* ReplContPrompt where a null line2 abandons the statement: the buffered
\* text is freed and the loop starts over
ReplContPrompt_abandon ==
    /\ pc = "repl_cont_prompt"
    /\ \/ /\ line2' = 0
          /\ contEof' = TRUE
          /\ mem' = Free(mem, line)
          /\ line' = 0
          /\ pc' = "repl_loop"
          /\ UNCHANGED <<memfault, linesRead>>
       \/ /\ linesRead < MaxLines
          /\ \E t \in ReplLines :
                LET b2 == Malloc(mem)
                    m2 == Store(mem, b2, t)
                    b3 == Malloc(m2)
                    m3 == Store(m2, b3, strjoin(mem[line].text, "\n", t))
                IN  /\ mem' = Free(Free(m3, line), b2)
                    /\ memfault' = memfault \cup FreeFault(m3, line) \cup FreeFault(m3, b2)
                    /\ line' = b3
                    /\ line2' = b2
          /\ linesRead' = linesRead + 1
          /\ pc' = "repl_cont_check"
          /\ UNCHANGED contEof
    /\ UNCHANGED <<mainVars, exitVars, out, eflVars, sessionErr, termBy>>

\* ReplContPrompt without free(line2) after the join
ReplContPrompt_leakLine2 ==
    /\ pc = "repl_cont_prompt"
    /\ \/ /\ line2' = 0
          /\ contEof' = TRUE
          /\ pc' = "repl_dispatch"
          /\ UNCHANGED <<line, mem, memfault, linesRead>>
       \/ /\ linesRead < MaxLines
          /\ \E t \in ReplLines :
                LET b2 == Malloc(mem)
                    m2 == Store(mem, b2, t)
                    b3 == Malloc(m2)
                    m3 == Store(m2, b3, strjoin(mem[line].text, "\n", t))
                IN  /\ mem' = Free(m3, line)
                    /\ memfault' = memfault \cup FreeFault(m3, line) \cup FreeFault(m3, b2)
                    /\ line' = b3
                    /\ line2' = b2
          /\ linesRead' = linesRead + 1
          /\ pc' = "repl_cont_check"
          /\ UNCHANGED contEof
    /\ UNCHANGED <<mainVars, exitVars, out, eflVars, sessionErr, termBy>>

\* main.c:148-155: line2 = prompt("... "); a null line2 breaks out of the
\* continuation loop, otherwise the two lines are joined and freed
ReplContPrompt ==
    /\ pc = "repl_cont_prompt"
    /\ \/ /\ line2' = 0
          /\ contEof' = TRUE
          /\ pc' = "repl_dispatch"
          /\ UNCHANGED <<line, mem, memfault, linesRead>>
       \/ /\ linesRead < MaxLines
          /\ \E t \in ReplLines :
                LET b2 == Malloc(mem)
                    m2 == Store(mem, b2, t)
                    b3 == Malloc(m2)
                    m3 == Store(m2, b3, strjoin(mem[line].text, "\n", t))
                IN  /\ mem' = Free(Free(m3, line), b2)
                    /\ memfault' = memfault \cup FreeFault(m3, line) \cup FreeFault(m3, b2)
                    /\ line' = b3
                    /\ line2' = b2
          /\ linesRead' = linesRead + 1
          /\ pc' = "repl_cont_check"
          /\ UNCHANGED contEof
    /\ UNCHANGED <<mainVars, exitVars, out, eflVars, sessionErr, termBy>>

\* main.c:158: whether the buffered statement is the quit command
IsQuit(t) == strcmp0(Str_quit, t)

\* main.c:158-163: quit sets should_exit; anything else gets a lexer and
\* execute_from_lexer(lex, MP_PARSE_SINGLE_INPUT, true)
ReplDispatch ==
    /\ pc = "repl_dispatch"
    /\ IF IsQuit(mem[line].text)
       THEN /\ should_exit' = TRUE
            /\ termBy' = "quit"
            /\ pc' = "repl_free"
            /\ UNCHANGED <<exit_val, eflVars>>
       ELSE /\ \E l \in {NullPtr, <<[source_name |-> Str_stdin, live |-> TRUE]>>} : lex' = l
            /\ lexText' = <<mem[line].text>>
            /\ caller' = "repl"
            /\ input_kind' = "MP_PARSE_SINGLE_INPUT"
            /\ is_repl' = TRUE
            /\ stages' = <<>>
            /\ nInvoke' = nInvoke + 1
            /\ pc' = "efl_entry"
            /\ UNCHANGED <<exitVars, termBy, pn, source_name, module_fun, nlr_top,
                           exc, file_global, lastRet>>
    /\ UNCHANGED <<mainVars, out, line, line2, mem, memfault, linesRead, contEof,
                   sessionErr>>

\* main.c:165: free(line), end of the loop body
ReplFree ==
    /\ pc = "repl_free"
    /\ mem' = Free(mem, line)
    /\ memfault' = memfault \cup FreeFault(mem, line)
    /\ line' = 0
    /\ line2' = 0
    /\ pc' = "repl_loop"
    /\ UNCHANGED <<mainVars, exitVars, out, eflVars, linesRead, contEof, sessionErr,
                   termBy>>

(***************************************************************************)
(* The program.                                                            *)
(***************************************************************************)
Next ==
    \/ MainStart \/ MainMalloc \/ MainInit \/ MainFor \/ MainArgs \/ DoFile
    \/ MainBreak \/ MainMode \/ MainWaitKey \/ MainAfterRepl \/ MainDeinit
    \/ MainFreeHeap \/ MainReturn
    \/ EflEntry \/ EflParse \/ EflName \/ EflCompile \/ EflExecute \/ EflCatch
    \/ NlrJumpFail
    \/ ReplBanner \/ ReplLoop \/ ReplPrompt \/ ReplContCheck \/ ReplContPrompt
    \/ ReplDispatch \/ ReplFree

Spec == Init /\ [][Next]_vars

\* The program is one thread that always takes its next step; a prompt
\* returns a line or end-of-input.
FairSpec == Spec /\ WF_vars(Next)

(***************************************************************************)
(* Properties.                                                             *)
(***************************************************************************)
\* the run took file mode / interactive mode
FileMode == ranFiles # <<>>
\* main returned through its last statement (main.c:244-247)
MainReturned == pc = "exited" /\ mp_state = "deinit"
\* the current invocation of execute_from_lexer captured the exit exception
\* carrying an integer
ExitCaptured ==
    /\ exc # <<>>
    /\ IsSystemExit(exc[1])
    /\ exc[1].value.kind = "int"

C2_ExitStatusIsN ==
    (pc = "exited" /\ FileMode /\ ExitCaptured)
        => (status = exc[1].value.n /\ lastRet = 1 /\ ret = 1)

\* C2 witness: a file run that exited with status 0 carried by SystemExit.
C2_Witness ==
    /\ pc = "exited"
    /\ FileMode
    /\ ExitCaptured
    /\ exc[1].value.n = 0
    /\ status = 0

C4_Quit ==
    /\ [](termBy = "quit" => should_exit)
    /\ [](pc = "exited" /\ termBy = "quit" => status = 0)
    /\ [][/\ (pc = "repl_dispatch" /\ IsQuit(mem[line].text))
                => (should_exit' /\ termBy' = "quit" /\ pc' = "repl_free"
                    /\ nInvoke' = nInvoke)
          /\ termBy = "quit"
                => (/\ pc' \notin {"repl_prompt", "repl_cont_prompt", "efl_entry"}
                    /\ nInvoke' = nInvoke
                    /\ linesRead' = linesRead)
         ]_vars

\* C4 witness: a session that ran a failing statement, then got quit, and
\* has exited.
C4_Witness ==
    /\ pc = "exited"
    /\ termBy = "quit"
    /\ sessionErr
    /\ nInvoke = 1

\* C5: in file mode a null parse node gives exit status 1 and the parse
\* diagnostic, with __file__ not stored, mp_compile and mp_call_function_0
\* not called, and should_exit / exit_val untouched.
C5_ParseFailure ==
    (FileMode /\ pn = "MP_PARSE_NODE_NULL")
        => /\ "parse_exception" \in out
           /\ file_global = <<>>
           /\ stages = <<"mp_parse", "mp_lexer_free">>
           /\ module_fun = NULL
           /\ ~should_exit /\ exit_val = 0
           /\ lastRet = 1
           /\ pc = "exited" => status = 1

\* C5 witness: a file run whose parse failed has exited.
C5_Witness ==
    /\ pc = "exited"
    /\ FileMode
    /\ pn = "MP_PARSE_NODE_NULL"

\* main.c:216-222 has run for the script (sys.path and sys.argv are built)
ArgsBuilt ==
    /\ Len(sys_path) = PathNum
    /\ pc \notin {"main_for", "main_args", "crashed"}
    /\ argc > 1
HasSep(s) == \E i \in 1..Len(s) : s[i] = "/"

\* C6: when argv[1] contains a '/', sys.path[0] is the part of argv[1] before
\* its last '/', sys.argv is argv[1..argc-1] in order, built before the script
\* runs, and argv[1] is the only script run.
C6_ScriptDirAndArgs ==
    /\ (ArgsBuilt /\ HasSep(Argv(1)))
          => /\ \E k \in 0..(Len(Argv(1)) - 1) :
                   /\ sys_path[1] = SubSeq(Argv(1), 1, k)
                   /\ Argv(1)[k + 1] = "/"
                   /\ \A j \in (k + 2)..Len(Argv(1)) : Argv(1)[j] # "/"
             /\ Len(sys_argv) = argc - 1
             /\ \A i \in 1..(argc - 1) : sys_argv[i] = Argv(i)
             /\ sys_path[2] = Str_ndless
    /\ (ranFiles = <<>> \/ (argc > 1 /\ ranFiles = <<Argv(1)>>))
    /\ (nInvoke > 0 /\ caller = "file") => ArgsBuilt

\* C6 witness: a run of a script in directory "/a" with one more argument has
\* exited, having run the script.
C6_Witness ==
    /\ pc = "exited"
    /\ argc = 3
    /\ Len(sys_path) = PathNum
    /\ sys_path[1] = <<"/", "a">>
    /\ Len(sys_argv) = 2
    /\ ranFiles = <<Argv(1)>>

\* C7: when argv[1] contains no '/', sys.path[0] is the empty string, the
\* length given to qstr_from_strn being 0 and the program well defined.
C7_NoSeparator ==
    /\ (ArgsBuilt /\ ~HasSep(Argv(1))) => sys_path[1] = <<>>
    /\ pc # "crashed"

\* C8: in interactive mode the exit status is 0, unless a statement produced
\* ExitRequested, and then it is that statement's status code; earlier error
\* outcomes do not change it.
C8_ReplStatus ==
    (pc = "exited" /\ ~FileMode /\ heap # "null")
        => status = (IF should_exit /\ termBy = "exit" THEN exc[1].value.n ELSE 0)

\* C9: when malloc(heap_size) fails, main reports it and returns 1 with no
\* initialisation of the guest engine and no guest code run.
C9_HeapFailure ==
    heap = "null"
        => /\ pc = "exited"
           /\ status = 1
           /\ "msgbox_heap_failed" \in out
           /\ ~gc_inited /\ mp_state = "none" /\ texture = "none"
           /\ sys_path = <<>>
           /\ nInvoke = 0 /\ ranFiles = <<>> /\ linesRead = 0
           /\ "banner" \notin out

\* C9 witness: the run ended on the failed reservation.
C9_Witness ==
    /\ heap = "null"
    /\ pc = "exited"
    /\ status = 1

\* C10: every exception raised in the execute stage is captured and turned
\* into an outcome; nlr_jump_fail is never reached because guest code raised.
C10_NoUncaughtNlr ==
    /\ pc # "nlr_jump_fail"
    /\ "fatal_uncaught_nlr" \notin out

\* the last engine call of the latest invocation of execute_from_lexer
LastStage == IF stages = <<>> THEN "none" ELSE stages[Len(stages)]
\* how the latest invocation ended, read once it has returned
ParseErrorOutcome == LastStage = "mp_lexer_free" /\ pn = "MP_PARSE_NODE_NULL"
CompileErrorOutcome == LastStage = "mp_compile" /\ module_fun = "mp_const_none"
UncaughtOutcome ==
    LastStage = "mp_call_function_0" /\ exc # <<>> /\ exc[1].type = "Other"
ErrorOutcome == ParseErrorOutcome \/ CompileErrorOutcome \/ UncaughtOutcome
\* do_repl is between the return of the driver and the next prompt, and the
\* statement of this cycle was not quit
AfterStatement == pc \in {"repl_free", "repl_loop"} /\ caller = "repl" /\ termBy # "quit"

\* C11: in do_repl a statement that ends in a parse error, a compile error or
\* an uncaught exception other than the exit exception leaves should_exit
\* false, and the loop goes on to the primary prompt.
C11_ErrorsContinue ==
    /\ []((AfterStatement /\ ErrorOutcome) => ~should_exit)
    /\ [][/\ (pc = "repl_free" /\ AfterStatement /\ ErrorOutcome)
                => (pc' = "repl_loop" /\ ~should_exit')
          /\ (pc = "repl_loop" /\ AfterStatement /\ ErrorOutcome)
                => pc' = "repl_prompt"
         ]_vars

\* C11 witness: the primary prompt is reached again after a statement raised
\* an exception that is not the exit exception.
C11_Witness ==
    /\ pc = "repl_prompt"
    /\ UncaughtOutcome
    /\ sessionErr
    /\ nInvoke = 1

\* C12: once a statement of the session produced ExitRequested, the status
\* code is recorded in exit_val and should_exit is set; from then on no prompt
\* is issued and execute_from_lexer is not invoked again.
C12_ExitEndsSession ==
    /\ []((termBy = "exit" /\ caller = "repl")
            => (should_exit /\ ExitCaptured /\ exit_val = ToUint(exc[1].value.n)))
    /\ [][(termBy = "exit" /\ caller = "repl")
            => (/\ pc' \notin {"repl_prompt", "repl_cont_prompt", "repl_dispatch", "efl_entry"}
                /\ nInvoke' = nInvoke
                /\ linesRead' = linesRead
                /\ should_exit' /\ exit_val' = exit_val)
         ]_vars

\* C12 witness: an interactive session ended by SystemExit(3) after an earlier
\* statement, with input left unread.
C12_Witness ==
    /\ pc = "exited"
    /\ caller = "repl"
    /\ termBy = "exit"
    /\ status = 3
    /\ nInvoke = 2
    /\ linesRead < MaxLines

\* the calls into the parser, the compiler and the VM among the stages
IsEngineStage(x) == x \in {"mp_parse", "mp_compile", "mp_call_function_0"}
EngineStages == SelectSeq(stages, IsEngineStage)
PipelineOrder == <<"mp_parse", "mp_compile", "mp_call_function_0">>
Called(x) == \E i \in 1..Len(stages) : stages[i] = x
\* control is inside execute_from_lexer, or the process ended inside it
InDriver ==
    \/ pc \in {"efl_entry", "efl_parse", "efl_name", "efl_compile", "efl_execute",
               "efl_catch", "nlr_jump_fail"}
    \/ "fatal_uncaught_nlr" \in out
\* the latest invocation of execute_from_lexer has returned
DriverReturned == nInvoke > 0 /\ ~InDriver

\* C13: the stages of execute_from_lexer run in the order parse, compile,
\* execute, each at most once; a null lexer, a null parse node and a compile
\* result of none each stop the pipeline with return value 1; the return
\* value is 0 only when the execute stage completed without raising.
C13_PipelineOrder ==
    /\ Len(EngineStages) <= Len(PipelineOrder)
    /\ EngineStages = SubSeq(PipelineOrder, 1, Len(EngineStages))
    /\ (nInvoke > 0 /\ lex = NullPtr /\ pc # "efl_entry")
          => (stages = <<>> /\ DriverReturned /\ lastRet = 1)
    /\ (Called("mp_parse") /\ pn = "MP_PARSE_NODE_NULL")
          => (~Called("mp_compile") /\ DriverReturned /\ lastRet = 1)
    /\ (Called("mp_compile") /\ module_fun = "mp_const_none")
          => (~Called("mp_call_function_0") /\ DriverReturned /\ lastRet = 1)
    /\ DriverReturned
          => (lastRet = 0 <=> (Called("mp_call_function_0") /\ exc = <<>>))
    /\ DriverReturned => lastRet \in {0, 1}

\* C13 witness: an invocation that ran all three stages and returned 0.
C13_Witness ==
    /\ DriverReturned
    /\ lastRet = 0
    /\ EngineStages = PipelineOrder

\* C14 as stated: __file__ is registered only when compilation of the script
\* succeeded; a file-mode run whose compile stage fails leaves it
\* unregistered; interactive runs never register it.
C14_Original ==
    /\ file_global # <<>>
          => (FileMode /\ Called("mp_compile") /\ module_fun = "fun")
    /\ (FileMode /\ Called("mp_compile") /\ module_fun = "mp_const_none")
          => file_global = <<>>
    /\ caller = "repl" => file_global = <<>>

\* C14 amended: in file mode __file__ is registered with the script's name
\* exactly when parsing succeeded, right after mp_parse and before mp_compile
\* and the execute stage, so it stays registered when the compile stage then
\* fails; a null lexer or a parse failure leaves it unregistered, and
\* interactive runs never register it.
C14_Amended ==
    /\ file_global # <<>> <=> (FileMode /\ Called("mp_store_global"))
    /\ file_global # <<>> => (file_global = <<Argv(1)>> /\ pn = "node")
    /\ (FileMode /\ Called("mp_parse") /\ pn = "node" /\ pc # "efl_name")
          => file_global # <<>>
    /\ FileMode
          => \E n \in 0..5 :
                stages = SubSeq(<<"mp_parse", "mp_store_global", "mp_lexer_free",
                                  "mp_compile", "mp_call_function_0">>, 1, n)
                \/ stages = <<"mp_parse", "mp_lexer_free">>
    /\ caller = "repl" => (file_global = <<>> /\ ~Called("mp_store_global"))

\* C14 witness: a file run whose compile stage failed has ended with __file__
\* registered.
C14_Witness ==
    /\ pc = "exited"
    /\ FileMode
    /\ module_fun = "mp_const_none"
    /\ file_global = <<Argv(1)>>

\* number of mp_lexer_free calls of the latest invocation
FreeCount == Len(SelectSeq(stages, LAMBDA x : x = "mp_lexer_free"))

\* C15: a non-null lexer is released exactly once on every path of
\* execute_from_lexer (parse failure, compile failure, normal completion,
\* captured exception), no field of it is read after the release, and a null
\* lexer is never released.
C15_LexerReleasedOnce ==
    /\ FreeCount <= 1
    /\ (nInvoke > 0 /\ lex # NullPtr) => (lex[1].live <=> FreeCount = 0)
    /\ (nInvoke > 0 /\ lex = NullPtr) => FreeCount = 0
    /\ (DriverReturned /\ lex # NullPtr) => (FreeCount = 1 /\ ~lex[1].live)
    /\ (Called("mp_compile") \/ pc \in {"efl_compile", "efl_execute", "efl_catch"})
          => FreeCount = 1
    /\ pc \in {"efl_parse", "efl_name"} => (lex # NullPtr /\ lex[1].live)
    /\ "lexer_use_after_free" \notin memfault

\* C15 witness: an invocation that ended in a captured exception has returned
\* with its lexer released.
C15_Witness ==
    /\ DriverReturned
    /\ lex # NullPtr
    /\ ~lex[1].live
    /\ UncaughtOutcome
    /\ FreeCount = 1

\* C16: the stack limit is set and the arena is reserved and given to gc_init
\* before mp_init and before any pipeline stage; mp_deinit precedes the
\* release of the arena, the arena is released at most once, and no pipeline
\* stage runs after mp_deinit.
C16_StartupShutdownOrder ==
    /\ [](gc_inited => (stack_limit = StackLimit /\ heap \in {"live", "freed"}))
    /\ [](mp_state # "none" => (gc_inited /\ stack_limit = StackLimit))
    /\ []((nInvoke > 0 \/ stages # <<>>) => mp_state # "none")
    /\ [](pc \in {"efl_entry", "efl_parse", "efl_name", "efl_compile", "efl_execute",
                  "efl_catch"}
            => (mp_state = "init" /\ heap = "live"))
    /\ [](heap = "freed" => mp_state = "deinit")
    /\ [](heap # "corrupt")
    /\ [][/\ mp_state = "deinit"
                => (mp_state' = "deinit" /\ stages' = stages /\ nInvoke' = nInvoke)
          /\ heap = "freed" => heap' = "freed"
          /\ heap' # heap => pc \in {"main_malloc", "main_free_heap"}
         ]_vars

\* C16 witness: a run that executed a statement has shut down and released the
\* arena.
C16_Witness ==
    /\ pc = "exited"
    /\ heap = "freed"
    /\ mp_state = "deinit"
    /\ nInvoke > 0
    /\ Called("mp_call_function_0")

\* the process has ended
Terminated == pc \in {"exited", "crashed"}

\* C17: past the arena reservation exactly one mode is taken: with argc > 1
\* do_file is invoked exactly once and do_repl is never entered; with
\* argc <= 1 do_file is never invoked, sys.argv is empty, sys.path[0] is the
\* empty string and do_repl is entered exactly once.
C17_ModeExclusive ==
    /\ argc > 1 => (Len(ranFiles) <= 1 /\ "banner" \notin out /\ linesRead = 0)
    /\ (argc > 1 /\ Terminated /\ heap # "null") => Len(ranFiles) = 1
    /\ argc <= 1
          => /\ ranFiles = <<>>
             /\ sys_argv = <<>>
             /\ Len(sys_path) = PathNum => sys_path[1] = <<>>
             /\ pc = "repl_banner" => "banner" \notin out
    /\ (argc <= 1 /\ Terminated /\ heap # "null") => "banner" \in out

\* the line buffers in use
LiveBufs == {b \in Bufs : mem[b].live}
\* do_repl is inside a cycle, holding the buffered statement in line
InCycle ==
    \/ pc \in {"repl_cont_check", "repl_cont_prompt", "repl_dispatch", "repl_free"}
    \/ (caller = "repl" /\ InDriver)

\* C18: in do_repl every buffer returned by prompt or strjoin is freed exactly
\* once, with no double free and nothing left allocated at the end of a
\* cycle; no buffer is read after it was freed; a null line is never given to
\* mp_repl_continue_with_input, strcmp, strjoin or the lexer.
C18_LineBufferOwnership ==
    /\ memfault \cap {"double_free", "use_after_free"} = {}
    /\ InCycle => (line # 0 /\ mem[line].live /\ LiveBufs = {line})
    /\ ~InCycle => LiveBufs = {}
    /\ (caller = "repl" /\ InDriver) => lexText = <<mem[line].text>>

\* C18 witness: a cycle that joined two lines and then met end-of-input at the
\* continuation prompt has ended with every buffer freed.
C18_Witness ==
    /\ pc = "repl_loop"
    /\ contEof
    /\ linesRead = 2
    /\ nInvoke = 1
    /\ LiveBufs = {}
    /\ Len(lexText[1]) > 3

\* C19: do_repl returns only on end-of-input at the primary prompt, on quit or
\* on ExitRequested; end-of-input at the primary prompt ends the session at
\* once without invoking the driver; and with finitely many lines followed by
\* end-of-input do_repl eventually returns, unless a driver invocation does
\* not come back.
C19_ReplTerminates ==
    /\ [][/\ (pc' = "main_after_repl" /\ pc # "main_after_repl")
                => \/ (pc = "repl_prompt" /\ line' = 0 /\ nInvoke' = nInvoke)
                   \/ (pc = "repl_loop" /\ should_exit /\ termBy \in {"quit", "exit"})
          /\ (pc = "repl_prompt" /\ linesRead' = linesRead /\ pc' # pc)
                => (pc' = "main_after_repl" /\ nInvoke' = nInvoke)
         ]_vars
    /\ (pc = "repl_banner") ~> (pc = "main_after_repl" \/ pc = "nlr_jump_fail")

\* C19 witness: do_repl returned on end-of-input at the primary prompt after
\* two statements were run.
C19_Witness ==
    /\ pc = "main_after_repl"
    /\ ~should_exit
    /\ termBy = NULL
    /\ nInvoke = 2

=============================================================================
